---- MODULE Spec2Model ----
(***************************************************************************)
(* A model of fmods: the dependency resolver (src/src/utils.rs: the        *)
(* worklist loop of process_dependencies, DependenciesProcessor's          *)
(* satisfaction check, merge and usage cascade), the planner               *)
(* Changes::compute, the download command of the cli that runs them and    *)
(* installs the plan (src/src/cli.rs), and the version order and the       *)
(* requirement-string parser of src/src/mod_info.rs.                       *)
(* The registry (FactorioApi::get_mod) and the installed snapshot          *)
(* (Instance) are the inputs: the snapshot is chosen in Init, a registry   *)
(* response is chosen the first time an id is fetched and is the same on   *)
(* every later fetch.                                                      *)
(***************************************************************************)
EXTENDS Integers, Sequences, FiniteSets, TLC

VARIABLES
    installed,      \* Instance.mods: id -> Option<Version>
    registry,       \* what get_mod answers per id, once asked
    budget,         \* requirement specs the registry may still declare
    root,           \* the Dependency process_dependencies is called with
    need_process,   \* DependenciesProcessor.need_process
    batch,          \* the rest of take(&mut need_process) being iterated
    dependencies,   \* DependenciesProcessor.dependencies (HashMap)
    pc,             \* "run", "resolved", "done", "error", "panic", "overflow",
                    \* "declined", "installing", "failed", "installed"
    err,            \* the utils::Error returned, when pc = "error"
    output,         \* the Vec<Dependency> process_dependencies returns
    changes,        \* the Changes computed from it
    lookups,        \* id -> number of get_mod calls of this run (capped)
    seen,           \* the specs process_dependency was called with
    last,           \* what the last process_dependency call did
    chosen,         \* id -> the version of the first release chosen for it
    run,            \* 1 or 2: which run on these inputs this is
    first,          \* the outcome of run 1, once run 2 has started
    answer,         \* what the user answered to "Proceed?": "", "y" or "n"
    downloaded,     \* the calls of Downloader::download made, in order
    removed,        \* the packages Instance::remove_mod removed, in order
    input,          \* the arguments of a function applied on its own
    result,         \* what it returned, <<>> before
    config          \* fmods/config.toml: Some(Config), None when it cannot be read

vars == <<installed, registry, budget, root, need_process, batch,
          dependencies, pc, err, output, changes, lookups, seen, last,
          chosen, run, first, answer, downloaded, removed, input, result, config>>

-----------------------------------------------------------------------------
(* Bounds *)

\* requirement specs declared by all releases of the registry together
MaxSpecs == 3
\* usages_count stops growing here (a run that loops would grow it for ever)
MaxUsage == 5
\* the components of the versions that are compared run over 0..MaxComponent
MaxComponent == 2
\* lookups stops growing here
MaxLookups == 3
\* the run is followed while need_process is no longer than this (pc = "overflow"
\* past it)
MaxQueue == 4

-----------------------------------------------------------------------------
(* Data model: mod_info.rs *)

None == <<>>
Some(x) == <<x>>
IsSome(o) == o # <<>>
Unwrap(o) == o[1]

Version(major, minor, patch) == <<major, minor, patch>>

\* a comparison that looks at the patch first and at the major last
VersionCmp_PatchFirst(a, b) ==
    IF a[3] # b[3] THEN (IF a[3] > b[3] THEN "Greater" ELSE "Less")
    ELSE IF a[2] # b[2] THEN (IF a[2] > b[2] THEN "Greater" ELSE "Less")
    ELSE IF a[1] # b[1] THEN (IF a[1] > b[1] THEN "Greater" ELSE "Less")
    ELSE "Equal"

\* impl Ord for Version: "Less", "Equal" or "Greater"
VersionCmp(a, b) ==
    IF a[1] # b[1] THEN (IF a[1] > b[1] THEN "Greater" ELSE "Less")
    ELSE IF a[2] # b[2] THEN (IF a[2] > b[2] THEN "Greater" ELSE "Less")
    ELSE IF a[3] # b[3] THEN (IF a[3] > b[3] THEN "Greater" ELSE "Less")
    ELSE "Equal"

VersionGt(a, b) == VersionCmp(a, b) = "Greater"
VersionGe(a, b) == VersionCmp(a, b) # "Less"

Dependency(mod_id, version, dependency_type) ==
    [mod_id |-> mod_id, version |-> version, dependency_type |-> dependency_type]

ExtendedDependency(version, dependency_type, usages_count) ==
    [version |-> version, dependency_type |-> dependency_type,
     usages_count |-> usages_count]

\* utils::is_mod_game_content
is_mod_game_content(id) ==
    id \in {"base", "quality", "elevated-rails", "space-age"}

-----------------------------------------------------------------------------
(* The inputs *)

RootId == "X"
ModIds == {"X", "Y"}
Ids == ModIds \cup {"base"}
Versions == {Version(1, 0, 0), Version(2, 0, 0)}
VersionOpts == {None} \cup {Some(v) : v \in Versions}

\* the requirement specs a release may declare
Pool ==
    {Dependency(id, vo, "Require") : id \in ModIds, vo \in VersionOpts}
    \cup {Dependency("base", None, "Require")}
    \cup {Dependency("Y", None, k) : k \in {"Optional", "Conflict"}}
    \cup {Dependency("Y", Some(Version(2, 0, 0)), "Conflict")}

DepLists(n) == UNION {[1..k -> Pool] : k \in 0..n}

\* a release whose requirement list has not been read yet has known = FALSE
ModRelease(version, deps, known) ==
    [version |-> version, dependencies |-> deps, known |-> known]

\* the ascending lists of releases over the versions vs
RECURSIVE ReleaseLists(_)
ReleaseLists(vs) ==
    IF vs = {} THEN {<<>>}
    ELSE LET v == CHOOSE x \in vs : \A y \in vs : VersionGe(y, x)
         IN ReleaseLists(vs \ {v})
            \cup {<<ModRelease(v, <<>>, FALSE)>> \o rest : rest \in ReleaseLists(vs \ {v})}

NotFetched == [state |-> "unknown", releases |-> <<>>]
FetchError == [state |-> "err", releases |-> <<>>]
ModInfo(releases) == [state |-> "ok", releases |-> releases]

\* FactorioApi::get_mod: the answers the registry can give for id. The cli
\* calls process_dependencies only after get_mod(root) gave releases.
Responses(id) ==
    IF registry[id] # NotFetched THEN {registry[id]}
    ELSE IF id = RootId THEN {ModInfo(rs) : rs \in ReleaseLists(Versions) \ {<<>>}}
    ELSE {ModInfo(rs) : rs \in ReleaseLists(Versions)} \cup {FetchError}

\* the ways to fix the requirement lists of the releases at the indexes `need`
\* that are not known yet, declaring at most n specs; each with what is left of n
RECURSIVE Fill(_, _, _)
Fill(releases, need, n) ==
    LET open == {i \in need : ~releases[i].known} IN
    IF open = {} THEN {[releases |-> releases, left |-> n]}
    ELSE LET i == CHOOSE x \in open : \A y \in open : x <= y
         IN UNION {Fill([releases EXCEPT ![i] = ModRelease(@.version, d, TRUE)],
                        need, n - Len(d)) : d \in DepLists(n)}

-----------------------------------------------------------------------------
(* DependenciesProcessor *)

Inc(n) == IF n >= MaxUsage THEN MaxUsage ELSE n + 1

\* check_satisfied, lines 72-81: the installed snapshot satisfies the spec
InstalledSatisfies(dependency) ==
    /\ IsSome(installed[dependency.mod_id])
    /\ IF IsSome(dependency.version)
       THEN VersionGe(Unwrap(installed[dependency.mod_id]), Unwrap(dependency.version))
       ELSE TRUE

\* check_satisfied, lines 83-106: the result when the snapshot does not decide
EntrySatisfies(deps, dependency) ==
    /\ dependency.mod_id \in DOMAIN deps
    /\ IF dependency.dependency_type # "Require" THEN TRUE
       ELSE IF ~IsSome(dependency.version) THEN TRUE
       ELSE IF IsSome(deps[dependency.mod_id].version)
       THEN VersionGe(Unwrap(deps[dependency.mod_id].version), Unwrap(dependency.version))
       ELSE FALSE

\* check_satisfied: the value returned
CheckSatisfied(deps, dependency) ==
    InstalledSatisfies(dependency) \/ EntrySatisfies(deps, dependency)

\* check_satisfied with the usage counted before the snapshot is looked at
CheckSatisfiedDeps_CountsInstalled(deps, dependency) ==
    IF /\ dependency.mod_id \in DOMAIN deps
       /\ dependency.dependency_type = "Require"
       /\ EntrySatisfies(deps, dependency)
    THEN [deps EXCEPT ![dependency.mod_id].usages_count = Inc(@)]
    ELSE deps

\* check_satisfied that also stores the version of the spec it found satisfied
CheckSatisfiedDeps_TakesVersion(deps, dependency) ==
    IF /\ ~InstalledSatisfies(dependency)
       /\ dependency.mod_id \in DOMAIN deps
       /\ dependency.dependency_type = "Require"
       /\ EntrySatisfies(deps, dependency)
    THEN [deps EXCEPT ![dependency.mod_id].usages_count = Inc(@),
                      ![dependency.mod_id].version =
                          IF IsSome(dependency.version) THEN dependency.version ELSE @]
    ELSE deps

\* check_satisfied that counts a usage for a satisfied spec of any kind
CheckSatisfiedDeps_CountsAnyKind(deps, dependency) ==
    IF /\ ~InstalledSatisfies(dependency)
       /\ dependency.mod_id \in DOMAIN deps
       /\ EntrySatisfies(deps, dependency)
    THEN [deps EXCEPT ![dependency.mod_id].usages_count = Inc(@)]
    ELSE deps

\* check_satisfied: the map it leaves (usages_count += 1 at line 100)
CheckSatisfiedDeps(deps, dependency) ==
    IF /\ ~InstalledSatisfies(dependency)
       /\ dependency.mod_id \in DOMAIN deps
       /\ dependency.dependency_type = "Require"
       /\ EntrySatisfies(deps, dependency)
    THEN [deps EXCEPT ![dependency.mod_id].usages_count = Inc(@)]
    ELSE deps

\* HashMap::insert
Insert(deps, id, entry) ==
    [k \in DOMAIN deps \cup {id} |-> IF k = id THEN entry ELSE deps[k]]

\* remove_usage that leaves an existing entry as it is
RemoveUsage_NoDecrement(deps, dependency) ==
    IF dependency.mod_id \in DOMAIN deps
    THEN deps
    ELSE Insert(deps, dependency.mod_id,
                ExtendedDependency(dependency.version, dependency.dependency_type, -1))

\* remove_usage
RemoveUsage(deps, dependency) ==
    IF dependency.mod_id \in DOMAIN deps
    THEN [deps EXCEPT ![dependency.mod_id].usages_count = @ - 1]
    ELSE Insert(deps, dependency.mod_id,
                ExtendedDependency(dependency.version, dependency.dependency_type, -1))

\* add_dependency, lines 138-142
RECURSIVE RemoveUsages(_, _)
RemoveUsages(deps, list) ==
    IF list = <<>> THEN deps
    ELSE RemoveUsages(RemoveUsage(deps, list[1]), Tail(list))

\* add_dependency, lines 115-127: does the merge replace the stored version
Raises(entry, dependency) ==
    /\ IsSome(entry.version)
    /\ IsSome(dependency.version)
    /\ VersionGt(Unwrap(dependency.version), Unwrap(entry.version))

\* add_dependency whose cascade walks the release at the merged version
RemoveUsagesFor_MergedRelease(entry, dependency, mod_info) ==
    IF Raises(entry, dependency) /\ IsSome(mod_info)
    THEN LET rs == Unwrap(mod_info).releases
             hit == {i \in 1..Len(rs) : rs[i].version = Unwrap(dependency.version)}
         IN IF hit = {} THEN <<>>
            ELSE rs[CHOOSE i \in hit : \A j \in hit : i <= j].dependencies
    ELSE <<>>

\* add_dependency, lines 118-123: remove_usages_for; mod_info is an Option
RemoveUsagesFor(entry, dependency, mod_info) ==
    IF Raises(entry, dependency) /\ IsSome(mod_info)
    THEN LET rs == Unwrap(mod_info).releases
             hit == {i \in 1..Len(rs) : rs[i].version = Unwrap(entry.version)}
         IN IF hit = {} THEN <<>>
            ELSE rs[CHOOSE i \in hit : \A j \in hit : i <= j].dependencies
    ELSE <<>>

\* add_dependency that stores the kind of the spec merged into an entry
AddDependency_TakesKind(deps, dependency, mod_info) ==
    IF dependency.mod_id \in DOMAIN deps
    THEN LET entry == deps[dependency.mod_id]
             merged == [entry EXCEPT
                          !.usages_count = Inc(@),
                          !.dependency_type = dependency.dependency_type,
                          !.version = IF Raises(entry, dependency)
                                      THEN dependency.version ELSE @]
         IN RemoveUsages([deps EXCEPT ![dependency.mod_id] = merged],
                         RemoveUsagesFor(entry, dependency, mod_info))
    ELSE Insert(deps, dependency.mod_id,
                ExtendedDependency(dependency.version, dependency.dependency_type, 1))

\* add_dependency
AddDependency(deps, dependency, mod_info) ==
    IF dependency.mod_id \in DOMAIN deps
    THEN LET entry == deps[dependency.mod_id]
             merged == [entry EXCEPT
                          !.usages_count = Inc(@),
                          !.version = IF Raises(entry, dependency)
                                      THEN dependency.version ELSE @]
         IN RemoveUsages([deps EXCEPT ![dependency.mod_id] = merged],
                         RemoveUsagesFor(entry, dependency, mod_info))
    ELSE Insert(deps, dependency.mod_id,
                ExtendedDependency(dependency.version, dependency.dependency_type, 1))

\* process_dependency choosing the first release that is not below the version
SelectRelease_AtLeast(releases, version) ==
    IF IsSome(version)
    THEN LET hit == {i \in 1..Len(releases) :
                       VersionGe(releases[i].version, Unwrap(version))}
         IN IF hit = {} THEN 0 ELSE CHOOSE i \in hit : \A j \in hit : i <= j
    ELSE Len(releases)

\* process_dependency, lines 51-58: the index of the release chosen, 0 if none
SelectRelease(releases, version) ==
    IF IsSome(version)
    THEN LET hit == {i \in 1..Len(releases) : releases[i].version = Unwrap(version)}
         IN IF hit = {} THEN 0 ELSE CHOOSE i \in hit : \A j \in hit : i <= j
    ELSE Len(releases)

\* process_dependency that asks the registry for every Require spec on a
\* non-reserved id, satisfied or not
NeedsLookup_Satisfied(deps, dependency) ==
    /\ dependency.dependency_type = "Require"
    /\ ~is_mod_game_content(dependency.mod_id)

\* process_dependency that asks the registry for game content too
NeedsLookup_GameContent(deps, dependency) ==
    /\ ~CheckSatisfied(deps, dependency)
    /\ dependency.dependency_type = "Require"

\* process_dependency that asks the registry whatever the kind of the spec
NeedsLookup_AnyKind(deps, dependency) ==
    /\ ~CheckSatisfied(deps, dependency)
    /\ ~is_mod_game_content(dependency.mod_id)

\* does process_dependency call get_mod for this spec
NeedsLookup(deps, dependency) ==
    /\ ~CheckSatisfied(deps, dependency)
    /\ dependency.dependency_type = "Require"
    /\ ~is_mod_game_content(dependency.mod_id)


-----------------------------------------------------------------------------
(* Changes::compute *)

NoChanges == [install |-> <<>>, update |-> <<>>, conflicts |-> <<>>, panicked |-> FALSE]

InstallChange(id, version) == [id |-> id, version |-> version]
UpdateChange(id, old_version, new_version) ==
    [id |-> id, old_version |-> old_version, new_version |-> new_version]

\* one turn of the loop of Changes::compute, lines 218-242
ComputeStep(acc, dependency) ==
    IF acc.panicked THEN acc
    ELSE IF dependency.dependency_type = "Conflict"
    THEN IF IsSome(installed[dependency.mod_id])
         THEN [acc EXCEPT !.conflicts = Append(@, dependency.mod_id)]
         ELSE acc
    ELSE IF dependency.dependency_type = "Require"
    THEN IF is_mod_game_content(dependency.mod_id) THEN acc
         ELSE IF ~IsSome(dependency.version) THEN [acc EXCEPT !.panicked = TRUE]
         ELSE IF IsSome(installed[dependency.mod_id])
         THEN IF VersionGt(Unwrap(dependency.version), Unwrap(installed[dependency.mod_id]))
              THEN [acc EXCEPT !.update = Append(@,
                        UpdateChange(dependency.mod_id, Unwrap(installed[dependency.mod_id]),
                                     Unwrap(dependency.version)))]
              ELSE acc
         ELSE [acc EXCEPT !.install = Append(@,
                   InstallChange(dependency.mod_id, Unwrap(dependency.version)))]
    ELSE acc

\* Changes::compute that leaves the loop at the first entry for game content
RECURSIVE ComputeFrom_BreakOnGameContent(_, _)
ComputeFrom_BreakOnGameContent(acc, list) ==
    IF list = <<>> THEN acc
    ELSE IF is_mod_game_content(list[1].mod_id) THEN acc
    ELSE ComputeFrom_BreakOnGameContent(ComputeStep(acc, list[1]), Tail(list))

\* Changes::compute
RECURSIVE ComputeFrom(_, _)
ComputeFrom(acc, list) ==
    IF list = <<>> THEN acc
    ELSE ComputeFrom(ComputeStep(acc, list[1]), Tail(list))

Compute(list) == ComputeFrom(NoChanges, list)

-----------------------------------------------------------------------------
(* process_dependencies *)

NoError == [kind |-> "none", id |-> ""]
ModNotFound(id) == [kind |-> "ModNotFound", id |-> id]
CantFoundSuitableRelease(id) == [kind |-> "CantFoundSuitableRelease", id |-> id]

NoStep == [dependency |-> Dependency("", None, ""), how |-> "none"]
Step(dependency, how) == [dependency |-> dependency, how |-> how]

NoOutcome == [pc |-> "none", err |-> NoError, output |-> {},
              install |-> {}, update |-> {}, conflicts |-> {}]

Range(seq) == {seq[i] : i \in 1..Len(seq)}

RemoveAt(seq, i) == SubSeq(seq, 1, i - 1) \o SubSeq(seq, i + 1, Len(seq))

\* the filter of lines 189-192 keeping the entries used more than once
Kept_UsedTwice(deps) == {id \in DOMAIN deps : deps[id].usages_count > 1}

\* lines 189-192: the entries the filter keeps
Kept(deps) == {id \in DOMAIN deps : deps[id].usages_count > 0}

\* lines 189-192: the Vec collected, in one of the orders the HashMap may iterate in
Outputs(deps) ==
    LET ids == Kept(deps)
        orders == {f \in [1..Cardinality(ids) -> ids] :
                     \A i, j \in 1..Cardinality(ids) : f[i] = f[j] => i = j}
    IN {[i \in 1..Cardinality(ids) |->
            Dependency(f[i], deps[f[i]].version, deps[f[i]].dependency_type)] :
        f \in orders}

\* DependenciesProcessor::new and the first lines of process_dependencies: the
\* root is the only spec to process
Started ==
    /\ root = Dependency(RootId, Some(Version(1, 0, 0)), "Require")
    /\ need_process = <<>>
    /\ batch = <<root>>
    /\ dependencies = <<>>
    /\ pc = "run"
    /\ err = NoError
    /\ output = <<>>
    /\ changes = NoChanges
    /\ lookups = [id \in Ids |-> 0]
    /\ seen = {}
    /\ last = NoStep
    /\ chosen = [id \in ModIds |-> None]
    /\ run = 1
    /\ first = NoOutcome
    /\ answer = ""
    /\ downloaded = <<>>
    /\ removed = <<>>

Init ==
    /\ installed \in [Ids -> VersionOpts]
    /\ installed["base"] = None
    /\ registry = [id \in Ids |-> NotFetched]
    /\ budget = MaxSpecs
    /\ Started
    /\ config = None
    /\ input = <<>>
    /\ result = <<>>

\* process_dependency(batch[i]), when check_satisfied returns true
Satisfied(i) ==
    LET dependency == batch[i] IN
    /\ CheckSatisfied(dependencies, dependency)
    /\ dependencies' = CheckSatisfiedDeps(dependencies, dependency)
    /\ last' = Step(dependency, IF InstalledSatisfies(dependency)
                                THEN "installed" ELSE "entry")
    /\ UNCHANGED <<registry, budget, need_process, pc, err, lookups, chosen>>

\* the releases of a response that this call reads the requirement list of:
\* the one chosen (k) and the one at the version the entry holds, for the cascade
Read(releases, k, dependency) ==
    {k} \cup (IF dependency.mod_id \in DOMAIN dependencies
              THEN {i \in 1..Len(releases) :
                      /\ IsSome(dependencies[dependency.mod_id].version)
                      /\ releases[i].version = Unwrap(dependencies[dependency.mod_id].version)}
              ELSE {})

\* process_dependency(batch[i]), the Require arm with a registry lookup
Lookup(i) ==
    LET dependency == batch[i]
        id == dependency.mod_id IN
    /\ NeedsLookup(dependencies, dependency)
    /\ lookups' = [lookups EXCEPT ![id] = IF @ >= MaxLookups THEN @ ELSE @ + 1]
    /\ \E response \in Responses(id) :
         LET k == SelectRelease(response.releases, dependency.version) IN
         IF response.state = "err"
         THEN /\ pc' = "error"
              /\ err' = ModNotFound(id)
              /\ last' = Step(dependency, "error")
              /\ registry' = [registry EXCEPT ![id] = response]
              /\ UNCHANGED <<need_process, dependencies, budget, chosen>>
         ELSE IF k = 0
         THEN /\ pc' = "error"
              /\ err' = CantFoundSuitableRelease(id)
              /\ last' = Step(dependency, "error")
              /\ registry' = [registry EXCEPT ![id] = response]
              /\ UNCHANGED <<need_process, dependencies, budget, chosen>>
         ELSE \E filled \in Fill(response.releases, Read(response.releases, k, dependency), budget) :
              LET mod_info == ModInfo(filled.releases) IN
              /\ registry' = [registry EXCEPT ![id] = mod_info]
              /\ budget' = filled.left
              /\ need_process' = need_process \o mod_info.releases[k].dependencies
              /\ dependencies' = AddDependency(dependencies,
                     [dependency EXCEPT !.version = Some(mod_info.releases[k].version)],
                     Some(mod_info))
              /\ last' = Step(dependency, "fetched")
              /\ chosen' = [chosen EXCEPT ![id] =
                     IF IsSome(@) THEN @ ELSE Some(mod_info.releases[k].version)]
              /\ pc' = IF Len(need_process') > MaxQueue THEN "overflow" ELSE pc
              /\ UNCHANGED err

\* process_dependency(batch[i]), the arms without a lookup (lines 41-44 and 65)
Merge(i) ==
    LET dependency == batch[i] IN
    /\ ~CheckSatisfied(dependencies, dependency)
    /\ ~NeedsLookup(dependencies, dependency)
    /\ dependencies' = AddDependency(dependencies, dependency, None)
    /\ last' = Step(dependency, "merged")
    /\ UNCHANGED <<registry, budget, need_process, pc, err, lookups, chosen>>

\* process_dependency called on the next spec of the batch after an error too
ProcessDependency_AfterError(i) ==
    /\ pc \in {"run", "error"}
    /\ i \in 1..Len(batch)
    /\ batch' = RemoveAt(batch, i)
    /\ seen' = seen \cup {batch[i]}
    /\ (Satisfied(i) \/ Lookup(i) \/ Merge(i))
    /\ UNCHANGED <<installed, root, output, changes, run, first,
                   answer, downloaded, removed, input, result, config>>

\* process_dependency on the i-th spec of the batch
ProcessDependency(i) ==
    /\ pc = "run"
    /\ i \in 1..Len(batch)
    /\ batch' = RemoveAt(batch, i)
    /\ seen' = seen \cup {batch[i]}
    /\ (Satisfied(i) \/ Lookup(i) \/ Merge(i))
    /\ UNCHANGED <<installed, root, output, changes, run, first,
                   answer, downloaded, removed, input, result, config>>

\* the for loop of lines 184-186 takes the specs in the order of the Vec
Process == ProcessDependency(1)

\* the while loop of line 183 takes the next batch
NextBatch ==
    /\ pc = "run"
    /\ batch = <<>>
    /\ need_process # <<>>
    /\ batch' = need_process
    /\ need_process' = <<>>
    /\ UNCHANGED <<installed, registry, budget, root, dependencies, pc, err,
                   output, changes, lookups, seen, last, chosen, run, first,
                   answer, downloaded, removed, input, result, config>>

\* lines 189-192: the loop is over, the kept entries are returned
Finish ==
    /\ pc = "run"
    /\ batch = <<>>
    /\ need_process = <<>>
    /\ output' \in Outputs(dependencies)
    /\ pc' = "resolved"
    /\ UNCHANGED <<installed, registry, budget, root, need_process, batch,
                   dependencies, err, changes, lookups, seen, last, chosen, run, first,
                   answer, downloaded, removed, input, result, config>>

\* cli: Changes::compute on what process_dependencies returned
Plan ==
    /\ pc = "resolved"
    /\ changes' = Compute(output)
    /\ pc' = IF Compute(output).panicked THEN "panic" ELSE "done"
    /\ UNCHANGED <<installed, registry, budget, root, need_process, batch,
                   dependencies, err, output, lookups, seen, last, chosen, run, first,
                   answer, downloaded, removed, input, result, config>>

Next == Process \/ NextBatch \/ Finish \/ Plan

Spec == Init /\ [][Next]_vars

\* the runs on an empty snapshot with a registry of one release per package,
\* the requirement lists fixed from the start
InitOneRelease ==
    /\ installed = [id \in Ids |-> None]
    /\ \E dx \in DepLists(MaxSpecs) : \E dy \in DepLists(MaxSpecs - Len(dx)) :
         registry \in
            {[id \in Ids |->
                IF id = RootId THEN ModInfo(<<ModRelease(Version(1, 0, 0), dx, TRUE)>>)
                ELSE IF id \in ModIds THEN y
                ELSE NotFetched] :
             y \in {ModInfo(<<ModRelease(Version(1, 0, 0), dy, TRUE)>>), FetchError}}
    /\ budget = 0
    /\ Started
    /\ config = None
    /\ input = <<>>
    /\ result = <<>>

\* the loop of process_dependencies and the cli's straight-line code after it
\* take their next step whenever there is one
FairSpec == InitOneRelease /\ [][Next]_vars /\ WF_vars(Next)

\* what a finished run leaves: how it ended, the resolved output and the plan's
\* lists as sets
Outcome == [pc |-> pc, err |-> err, output |-> Range(output),
            install |-> Range(changes.install), update |-> Range(changes.update),
            conflicts |-> Range(changes.conflicts)]

\* the download command is run again on the same snapshot, the registry
\* answering as before
Restart ==
    /\ run = 1
    /\ pc \in {"done", "error", "panic"}
    /\ first' = Outcome
    /\ run' = 2
    /\ need_process' = <<>>
    /\ batch' = <<root>>
    /\ dependencies' = <<>>
    /\ pc' = "run"
    /\ err' = NoError
    /\ output' = <<>>
    /\ changes' = NoChanges
    /\ lookups' = [id \in Ids |-> 0]
    /\ seen' = {}
    /\ last' = NoStep
    /\ chosen' = [id \in ModIds |-> None]
    /\ UNCHANGED <<installed, registry, budget, root, answer, downloaded, removed, input, result, config>>

SpecTwice == Init /\ [][Next \/ Restart]_vars

\* the second run with the worklist processed in any order: any spec of the
\* batch may be taken next
ProcessAny ==
    /\ run = 2
    /\ \E i \in 1..Len(batch) : ProcessDependency(i)

\* the second run with one worklist instead of generations: the pending specs
\* may join the batch at any time
PullAny ==
    /\ run = 2
    /\ pc = "run"
    /\ need_process # <<>>
    /\ batch' = batch \o need_process
    /\ need_process' = <<>>
    /\ UNCHANGED <<installed, registry, budget, root, dependencies, pc, err,
                   output, changes, lookups, seen, last, chosen, run, first,
                   answer, downloaded, removed, input, result, config>>

SpecAnyOrder == Init /\ [][Next \/ Restart \/ ProcessAny \/ PullAny]_vars

\* what the installer steps leave alone
resolved_state == <<installed, registry, budget, root, need_process, batch,
                    dependencies, err, output, lookups, seen, last, chosen,
                    run, first, input, result, config>>

\* Instance::remove_mod: the log of removals after remove_mod(id)
RemoveMod(log, id) == IF IsSome(installed[id]) THEN Append(log, id) ELSE log

\* the cli going on to install whatever choose returned
Confirm_Proceeds ==
    /\ pc = "done"
    /\ answer' \in {"y", "n"}
    /\ pc' = "installing"
    /\ UNCHANGED <<resolved_state, changes, downloaded, removed>>

\* cli, lines 283-288: choose returns "y" or "n" (any other input asks again)
Confirm ==
    /\ pc = "done"
    /\ \E a \in {"y", "n"} :
         /\ answer' = a
         /\ pc' = IF a = "n" THEN "declined" ELSE "installing"
    /\ UNCHANGED <<resolved_state, changes, downloaded, removed>>

\* cli, lines 291-296: the next install action is downloaded, or fails to
DownloadInstall ==
    /\ pc = "installing"
    /\ changes.install # <<>>
    /\ changes' = [changes EXCEPT !.install = Tail(@)]
    /\ downloaded' = Append(downloaded, Head(changes.install))
    /\ pc' \in {"installing", "failed"}
    /\ UNCHANGED <<resolved_state, answer, removed>>

\* cli, lines 299-306: the next update action removes the installed package
\* and downloads the new version, or fails to
DownloadUpdate ==
    /\ pc = "installing"
    /\ changes.install = <<>>
    /\ changes.update # <<>>
    /\ changes' = [changes EXCEPT !.update = Tail(@)]
    /\ removed' = RemoveMod(removed, Head(changes.update).id)
    /\ downloaded' = Append(downloaded,
           InstallChange(Head(changes.update).id, Head(changes.update).new_version))
    /\ pc' \in {"installing", "failed"}
    /\ UNCHANGED <<resolved_state, answer>>

\* cli, lines 309-311: the next conflicting package is removed
RemoveConflict ==
    /\ pc = "installing"
    /\ changes.install = <<>>
    /\ changes.update = <<>>
    /\ changes.conflicts # <<>>
    /\ changes' = [changes EXCEPT !.conflicts = Tail(@)]
    /\ removed' = RemoveMod(removed, Head(changes.conflicts))
    /\ UNCHANGED <<resolved_state, pc, answer, downloaded>>

\* cli, line 313
InstallDone ==
    /\ pc = "installing"
    /\ changes.install = <<>>
    /\ changes.update = <<>>
    /\ changes.conflicts = <<>>
    /\ pc' = "installed"
    /\ UNCHANGED <<resolved_state, changes, answer, downloaded, removed, input, result, config>>

\* the whole download command
NextDownload ==
    Next \/ Confirm \/ DownloadInstall \/ DownloadUpdate \/ RemoveConflict \/ InstallDone

\* the download command on an instance that holds Y 1.0.0 and not X; the
\* registry may declare one spec more, which a plan with a conflict takes
InitDownload ==
    /\ installed = [id \in Ids |-> IF id = "Y" THEN Some(Version(1, 0, 0)) ELSE None]
    /\ registry = [id \in Ids |-> NotFetched]
    /\ budget = MaxSpecs + 1
    /\ Started
    /\ config = None
    /\ input = <<>>
    /\ result = <<>>

SpecDownload == InitDownload /\ [][NextDownload]_vars

\* the variables of the download command
command_state == <<installed, registry, budget, root, need_process, batch,
                   dependencies, pc, err, output, changes, lookups, seen, last,
                   chosen, run, first, answer, downloaded, removed>>

\* the versions that are compared
VersionInputs ==
    {Version(a, b, c) : a, b, c \in 0..MaxComponent} \cup {Version(1, 9, 9)}

\* three versions are given, nothing is compared yet
InitVersion ==
    /\ installed = [id \in Ids |-> None]
    /\ registry = [id \in Ids |-> NotFetched]
    /\ budget = 0
    /\ Started
    /\ config = None
    /\ input \in VersionInputs \X VersionInputs \X VersionInputs
    /\ result = <<>>

\* Version::cmp on each pair of the three
Compare ==
    /\ result = <<>>
    /\ result' = [ab |-> VersionCmp(input[1], input[2]),
                  ba |-> VersionCmp(input[2], input[1]),
                  bc |-> VersionCmp(input[2], input[3]),
                  ac |-> VersionCmp(input[1], input[3])]
    /\ UNCHANGED <<command_state, input, config>>

SpecVersion == InitVersion /\ [][Compare]_vars

(* The registry client: factorio_api.rs *)

\* the most releases in a fetched response, the most specs a fetched release declares
MaxFetched == 3
MaxDeclared == 2

\* ModRelease as it is deserialized, with its info_json
FetchedRelease(version, deps, factorio_version) ==
    [version |-> version,
     info_json |-> [dependencies |-> deps, factorio_version |-> factorio_version]]

\* Instance::new: version is major.minor.0 of the bundled "base"
InstanceOf(game_content_versions) ==
    [version |-> Version(game_content_versions["base"][1],
                         game_content_versions["base"][2], 0),
     game_content_versions |-> game_content_versions]

\* the instances: "base" is bundled at 2.0.1, "quality" is absent or bundled
Instances ==
    {InstanceOf([id \in {"base"} |-> Version(2, 0, 1)])}
    \cup {InstanceOf([id \in {"base", "quality"} |->
                         IF id = "base" THEN Version(2, 0, 1) ELSE v]) : v \in Versions}

\* the specs a fetched release may declare
FetchedPool ==
    {Dependency("quality", None, "Require"),
     Dependency("quality", Some(Version(2, 0, 0)), "Require"),
     Dependency("quality", Some(Version(2, 0, 0)), "Optional"),
     Dependency("Y", Some(Version(2, 0, 0)), "Require")}

FetchedReleases ==
    {FetchedRelease(v, deps, f) :
        v \in Versions,
        deps \in UNION {[1..k -> FetchedPool] : k \in 0..MaxDeclared},
        f \in {Version(2, 0, 0), Version(2, 0, 1)}}

\* is_release_compatible that stops at the first spec it does not skip
is_release_compatible_FirstSpec(instance, mod_release) ==
    /\ mod_release.info_json.factorio_version = instance.version
    /\ LET declared == mod_release.info_json.dependencies
           checked == {i \in 1..Len(declared) :
                         /\ declared[i].dependency_type = "Require"
                         /\ is_mod_game_content(declared[i].mod_id)}
       IN \A i \in checked :
            (\A j \in checked : i <= j)
            => /\ declared[i].mod_id \in DOMAIN instance.game_content_versions
               /\ IsSome(declared[i].version)
                  => ~VersionGt(Unwrap(declared[i].version),
                                instance.game_content_versions[declared[i].mod_id])

\* FactorioApi::is_release_compatible
is_release_compatible(instance, mod_release) ==
    /\ mod_release.info_json.factorio_version = instance.version
    /\ LET declared == mod_release.info_json.dependencies IN
       \A i \in 1..Len(declared) :
          (/\ declared[i].dependency_type = "Require"
           /\ is_mod_game_content(declared[i].mod_id))
          => /\ declared[i].mod_id \in DOMAIN instance.game_content_versions
             /\ IsSome(declared[i].version)
                => ~VersionGt(Unwrap(declared[i].version),
                              instance.game_content_versions[declared[i].mod_id])

\* slice::sort_by(|x1, x2| x1.version.cmp(&x2.version)): a stable sort; one
\* release is put behind every release that is not greater
InsertByVersion(sorted, release) ==
    LET before == {i \in 1..Len(sorted) :
                     VersionCmp(sorted[i].version, release.version) # "Greater"}
        k == IF before = {} THEN 0 ELSE CHOOSE i \in before : \A j \in before : j <= i
    IN SubSeq(sorted, 1, k) \o <<release>> \o SubSeq(sorted, k + 1, Len(sorted))

RECURSIVE SortByVersion(_)
SortByVersion(releases) ==
    IF releases = <<>> THEN <<>>
    ELSE InsertByVersion(SortByVersion(SubSeq(releases, 1, Len(releases) - 1)),
                         releases[Len(releases)])

\* get_mod, lines 32-38, on the response body read at line 30
get_mod(instance, fetched) ==
    ModInfo(SortByVersion(
        SelectSeq(fetched, LAMBDA x : is_release_compatible(instance, x))))

\* a response has been read for an instance, nothing is filtered yet
InitFetched ==
    /\ installed = [id \in Ids |-> None]
    /\ registry = [id \in Ids |-> NotFetched]
    /\ budget = 0
    /\ Started
    /\ config = None
    /\ input \in [instance : Instances,
                  releases : UNION {[1..k -> FetchedReleases] : k \in 0..MaxFetched}]
    /\ result = <<>>

\* FactorioApi::get_mod returns Ok
GetMod ==
    /\ result = <<>>
    /\ result' = get_mod(input.instance, input.releases)
    /\ UNCHANGED <<command_state, input, config>>

SpecFetched == InitFetched /\ [][GetMod]_vars

(* The instances commands: cli.rs, config.rs *)

\* impl Default for Config
ConfigDefault == [ask |-> TRUE, default_instance |-> None, instances |-> <<>>]

\* Config::load: the default when the file cannot be read or parsed
Load(file) == IF IsSome(file) THEN Unwrap(file) ELSE ConfigDefault

\* Config::save under save_config: the file afterwards. It is written whole,
\* or open fails and it is as before, or it is truncated and the write fails
Save(file, new) == {Some(new), file, None}

InstanceNames == {"a", "b", "c"}
InstancePaths == {"p", "q"}

\* the values of Config.instances
InstanceMaps == UNION {[names -> InstancePaths] : names \in SUBSET InstanceNames}

\* the configurations whose default instance is unset or names a saved instance
Configs ==
    {c \in [ask : BOOLEAN,
            default_instance : {None} \cup {Some(n) : n \in InstanceNames},
            instances : InstanceMaps] :
        IF IsSome(c.default_instance)
        THEN Unwrap(c.default_instance) \in DOMAIN c.instances
        ELSE TRUE}

\* cli, line 104: let ask = (config.ask || args.ask) && !args.no_ask
Ask(cfg, ask, no_ask) == (cfg.ask \/ ask) /\ ~no_ask

\* Commands::Instances, Add: does the command stop before Instance::new
AddStops(cfg, name, replace, ask, reply) ==
    /\ name \in DOMAIN cfg.instances
    /\ ~replace
    /\ (~ask \/ reply = "n")

\* Commands::Instances, Add, lines 128-131
AddInstance(cfg, name, path, default) ==
    [cfg EXCEPT !.instances = Insert(@, name, path),
                !.default_instance = IF default THEN Some(name) ELSE @]

\* HashMap::remove
Without(map, name) == [n \in DOMAIN map \ {name} |-> map[n]]

\* Commands::Instances, Remove, that leaves the default instance as it is
RemoveInstance_KeepsDefault(cfg, name) ==
    [cfg EXCEPT !.instances = Without(@, name)]

\* Commands::Instances, Remove, lines 137-143
RemoveInstance(cfg, name) ==
    [cfg EXCEPT !.instances = Without(@, name),
                !.default_instance = IF @ = Some(name) THEN None ELSE @]

\* a configuration is on disk, no command has run yet
InitInstances ==
    /\ installed = [id \in Ids |-> None]
    /\ registry = [id \in Ids |-> NotFetched]
    /\ budget = 0
    /\ Started
    /\ config \in {Some(c) : c \in Configs} \cup {None}
    /\ input = <<>>
    /\ result = <<>>

\* what a command leaves behind: its arguments and what Config::load gave it
Ran(command, name) ==
    /\ input' = [command |-> command, name |-> name]
    /\ result' = Load(config)
    /\ UNCHANGED command_state

\* fmods instances add <name> <path> [--replace] [--default]
InstancesAdd ==
    \E name \in InstanceNames, path \in InstancePaths,
       replace, default, ask, no_ask, opens \in BOOLEAN, reply \in {"y", "n"} :
        LET cfg == Load(config) IN
        /\ Ran("add", name)
        /\ IF AddStops(cfg, name, replace, Ask(cfg, ask, no_ask), reply) \/ ~opens
           THEN UNCHANGED config
           ELSE config' \in Save(config, AddInstance(cfg, name, path, default))

\* fmods instances remove <name>
InstancesRemove ==
    \E name \in InstanceNames :
        LET cfg == Load(config) IN
        /\ Ran("remove", name)
        /\ IF name \in DOMAIN cfg.instances
           THEN config' \in Save(config, RemoveInstance(cfg, name))
           ELSE UNCHANGED config

\* fmods instances default <name>
InstancesDefault ==
    \E name \in InstanceNames :
        LET cfg == Load(config) IN
        /\ Ran("default", name)
        /\ IF name \in DOMAIN cfg.instances
           THEN config' \in Save(config, [cfg EXCEPT !.default_instance = Some(name)])
           ELSE UNCHANGED config

\* fmods instances unset-default
InstancesUnsetDefault ==
    /\ Ran("unset-default", "")
    /\ config' \in Save(config, [Load(config) EXCEPT !.default_instance = None])

NextInstances ==
    InstancesAdd \/ InstancesRemove \/ InstancesDefault \/ InstancesUnsetDefault

SpecInstances == InitInstances /\ [][NextInstances]_vars

(* Parsing: mod_info.rs. A string is the sequence of its characters. *)

\* str::replace(c, "") for each c of cs
Strip(s, cs) == SelectSeq(s, LAMBDA c : c \notin cs)

\* str::starts_with
StartsWith(s, c) == IF s = <<>> THEN FALSE ELSE s[1] = c

\* str::trim_start and str::trim_end
RECURSIVE TrimStart(_)
TrimStart(s) ==
    IF s = <<>> THEN s
    ELSE IF s[1] = " " THEN TrimStart(Tail(s)) ELSE s

RECURSIVE TrimEnd(_)
TrimEnd(s) ==
    IF s = <<>> THEN s
    ELSE IF s[Len(s)] = " " THEN TrimEnd(SubSeq(s, 1, Len(s) - 1)) ELSE s

\* trimming that leaves the text as it is
Trim_Nothing(s) == s

\* .trim_start().trim_end()
Trim(s) == TrimEnd(TrimStart(s))

\* s.split('.')
RECURSIVE SplitDots(_)
SplitDots(s) ==
    LET dots == {i \in 1..Len(s) : s[i] = "."} IN
    IF dots = {} THEN <<s>>
    ELSE LET k == CHOOSE i \in dots : \A j \in dots : i <= j
         IN <<SubSeq(s, 1, k - 1)>> \o SplitDots(SubSeq(s, k + 1, Len(s)))

Digits == <<"0", "1", "2", "3", "4", "5", "6", "7", "8", "9">>

DigitValue(c) == (CHOOSE i \in 1..Len(Digits) : Digits[i] = c) - 1

RECURSIVE DecimalValue(_)
DecimalValue(s) ==
    IF s = <<>> THEN 0
    ELSE DecimalValue(SubSeq(s, 1, Len(s) - 1)) * 10 + DigitValue(s[Len(s)])

\* str::parse::<i64> on a text without a sign: None is the ParseIntError
ParseInt(s) ==
    IF s = <<>> \/ (\E i \in 1..Len(s) : s[i] \notin Range(Digits))
    THEN None
    ELSE Some(DecimalValue(s))

\* Version::from_str: None is the Err
FromStrVersion(s) ==
    LET parts == SplitDots(s)
        part(i) == IF i <= Len(parts) THEN ParseInt(parts[i]) ELSE Some(0)
    IN IF IsSome(part(1)) /\ IsSome(part(2)) /\ IsSome(part(3))
       THEN Some(Version(Unwrap(part(1)), Unwrap(part(2)), Unwrap(part(3))))
       ELSE None

\* the places of ">=" in s
Separators(s) == {k \in 1..(Len(s) - 1) : s[k] = ">" /\ s[k + 1] = "="}

\* Dependency::from_str: None is the Err
FromStrDependency(s) ==
    LET clear == Strip(s, {"(", ")", "~"})
        dependency_type == IF StartsWith(clear, "!") THEN "Conflict"
                           ELSE IF StartsWith(clear, "?") THEN "Optional"
                           ELSE "Require"
        body == Strip(clear, {"!", "?"})
        seps == Separators(body)
    IN IF Cardinality(seps) = 1
       THEN LET k == CHOOSE x \in seps : TRUE
                version == FromStrVersion(Trim(SubSeq(body, k + 2, Len(body))))
            IN IF IsSome(version)
               THEN Some(Dependency(Trim(SubSeq(body, 1, k - 1)), version, dependency_type))
               ELSE None
       ELSE Some(Dependency(Trim(body), None, dependency_type))

\* the pieces the requirement strings are put together from
Opens == {<<>>, <<"(">>, <<" ">>}
Markers == {<<>>, <<"!">>, <<"?">>}
Mids == {<<>>, <<")">>, <<" ">>}
IdTexts == {<<"a">>, <<"a", "b">>, <<"a", " ", "b">>, <<"a", "?">>}
Operators == {<<>>, <<">", "=">>, <<" ", ">", "=", " ">>, <<">">>}
VersionTexts ==
    {<<"1">>, <<"1", ".", "2">>, <<"1", ".", "2", ".", "3">>,
     <<"1", ".", "2", ".", "3", ".", "4">>, <<"1", "0">>, <<>>, <<"x">>,
     <<"1", ".">>}
Closes == {<<>>, <<")">>, <<"~">>, <<")", "~">>, <<" ">>}

\* the requirement string made of the pieces
Text(in) ==
    in.open \o in.marker \o in.mid \o in.id \o in.operator \o in.version \o in.close

\* a requirement string is given, nothing is parsed yet
InitParse ==
    /\ installed = [id \in Ids |-> None]
    /\ registry = [id \in Ids |-> NotFetched]
    /\ budget = 0
    /\ Started
    /\ config = None
    /\ input \in [open : Opens, marker : Markers, mid : Mids, id : IdTexts,
                  operator : Operators, version : VersionTexts, close : Closes]
    /\ input.operator = <<>> => input.version = <<>>
    /\ result = <<>>

\* Dependency::from_str on the string, on the string followed by "~" and on
\* the string in parentheses
ParseDependency ==
    /\ result = <<>>
    /\ result' = [plain |-> FromStrDependency(Text(input)),
                  tilde |-> FromStrDependency(Text(input) \o <<"~">>),
                  wrapped |-> FromStrDependency(<<"(">> \o Text(input) \o <<")">>)]
    /\ UNCHANGED <<command_state, input, config>>

SpecParse == InitParse /\ [][ParseDependency]_vars

-----------------------------------------------------------------------------
(* Properties *)

Count(seq, x) == Cardinality({i \in 1..Len(seq) : seq[i] = x})

\* process_dependencies returned Ok
Succeeded == pc \in {"resolved", "done", "panic"}

PlanIds(list) == {list[i].id : i \in 1..Len(list)}

\* C1 (as claimed): once the plan is computed, every package Y that a processed
\* Conflict spec names has exactly one conflict action if Y is installed, and
\* none if it is not.
C1_ConflictDetection ==
    pc = "done" =>
        \A d \in seen :
            d.dependency_type = "Conflict" =>
                Count(changes.conflicts, d.mod_id)
                    = (IF IsSome(installed[d.mod_id]) THEN 1 ELSE 0)

\* C2 (as claimed, for packages the snapshot does not hold): after a successful
\* resolution, a package for which Require specs with minimum versions v1 < v2
\* were both processed has an entry whose resolved version is exactly v2.
C2_UpgradeMonotonicity ==
    Succeeded =>
        \A d1, d2 \in seen :
            ( /\ d1.mod_id = d2.mod_id
              /\ d1.dependency_type = "Require"
              /\ d2.dependency_type = "Require"
              /\ ~IsSome(installed[d1.mod_id])
              /\ IsSome(d1.version)
              /\ IsSome(d2.version) )
            => ( VersionGt(Unwrap(d2.version), Unwrap(d1.version))
                 => /\ d2.mod_id \in DOMAIN dependencies
                    /\ dependencies[d2.mod_id].version = d2.version )

\* a Require spec the snapshot satisfies
InstalledRequire(d) == d.dependency_type = "Require" /\ InstalledSatisfies(d)

\* C3 (as claimed, its last clause): once the plan is computed, a package for
\* which a Require spec satisfied by the snapshot was processed has no install
\* and no update action.
C3_NoActionForInstalled ==
    pc = "done" =>
        \A d \in seen :
            InstalledRequire(d) =>
                d.mod_id \notin PlanIds(changes.install) \cup PlanIds(changes.update)

\* C3 (amended): processing a Require spec that the snapshot satisfies makes no
\* registry lookup, changes no entry and enqueues nothing; the plan has no
\* install action for its package, and an update action for it only when some
\* processed Require spec demands more than the installed version.
C3_SatisfiedByInstalled ==
    /\ [][ ( /\ pc = "run"
             /\ batch # <<>>
             /\ batch' = Tail(batch)
             /\ InstalledRequire(batch[1]) )
           => UNCHANGED <<lookups, registry, dependencies, need_process>> ]_vars
    /\ [](pc = "done" =>
            \A d \in seen :
                InstalledRequire(d) =>
                    /\ d.mod_id \notin PlanIds(changes.install)
                    /\ d.mod_id \in PlanIds(changes.update) =>
                         \E e \in seen :
                            /\ e.mod_id = d.mod_id
                            /\ e.dependency_type = "Require"
                            /\ IsSome(e.version)
                            /\ VersionGt(Unwrap(e.version), Unwrap(installed[d.mod_id])))

\* the last spec processed was a Require spec satisfied by the snapshot, an
\* entry for its package exists, and the plan updates the package
C3_Witness ==
    /\ pc = "done"
    /\ last.how = "installed"
    /\ last.dependency.dependency_type = "Require"
    /\ last.dependency.mod_id \in DOMAIN dependencies
    /\ last.dependency.mod_id \in PlanIds(changes.update)

\* the specs on id that a release declares
SpecsOn(release, id) ==
    {release.dependencies[i] : i \in {j \in 1..Len(release.dependencies) :
                                        release.dependencies[j].mod_id = id}}

\* the releases of a that the registry has given, as <<id, release>>
Releases(a) == {<<a, registry[a].releases[i]>> : i \in 1..Len(registry[a].releases)}
AllReleases == UNION {Releases(a) : a \in ModIds}

OutputIds == {output[i].mod_id : i \in 1..Len(output)}

\* the case of C4: the first release chosen for a declares Require specs on b,
\* a's resolved version was raised above it to a release that does not declare
\* b, and nothing else (no other release read, nor the root) refers to b
CascadeCase(a, b) ==
    /\ a # b
    /\ root.mod_id # b
    /\ IsSome(chosen[a])
    /\ a \in DOMAIN dependencies
    /\ IsSome(dependencies[a].version)
    /\ VersionGt(Unwrap(dependencies[a].version), Unwrap(chosen[a]))
    /\ \E r \in Releases(a) :
         /\ r[2].version = Unwrap(chosen[a])
         /\ SpecsOn(r[2], b) # {}
         /\ \A d \in SpecsOn(r[2], b) : d.dependency_type = "Require"
    /\ \E r \in Releases(a) : r[2].version = Unwrap(dependencies[a].version)
    /\ \A r \in AllReleases :
         (r[1] # a \/ r[2].version # Unwrap(chosen[a])) => SpecsOn(r[2], b) = {}

\* C4: after a successful resolution, in the cascade case b's usage count is
\* not positive and b is not in the resolved output.
C4_CascadeInvalidation ==
    Succeeded =>
        \A a \in ModIds : \A b \in Ids :
            CascadeCase(a, b) =>
                /\ b \notin Kept(dependencies)
                /\ b \notin OutputIds

\* the cascade case, with b fetched and merged and then decremented to zero
C4_Witness ==
    /\ Succeeded
    /\ \E a \in ModIds : \E b \in ModIds :
         /\ CascadeCase(a, b)
         /\ lookups[b] >= 1
         /\ b \in DOMAIN dependencies
         /\ dependencies[b].usages_count = 0

\* the cascade case, with b decremented before any of its specs was processed
C4_WitnessAfter ==
    /\ Succeeded
    /\ \E a \in ModIds : \E b \in ModIds :
         /\ CascadeCase(a, b)
         /\ lookups[b] = 0
         /\ b \in DOMAIN dependencies
         /\ dependencies[b].usages_count <= 0

\* C5 (as claimed): the loop of process_dependencies ends, with an empty
\* worklist or with an error.
C5_Termination == <>(pc # "run")

\* the release of id at version v, when its requirement list has been read
ReadReleases(id, v) ==
    {r \in Releases(id) : r[2].version = v /\ r[2].known}

\* the resolved output has a Require entry for d's package that meets d's minimum
OutputMeets(d) ==
    \E j \in 1..Len(output) :
        /\ output[j].mod_id = d.mod_id
        /\ output[j].dependency_type = "Require"
        /\ IF IsSome(d.version)
           THEN IF IsSome(output[j].version)
                THEN VersionGe(Unwrap(output[j].version), Unwrap(d.version))
                ELSE FALSE
           ELSE TRUE

\* C6 (as claimed): after a successful resolution, every Require spec on a
\* non-reserved id that the release of a Require output entry (at its resolved
\* version) declares is met by the snapshot or by a Require output entry with
\* an adequate version.
C6_Closure ==
    Succeeded =>
        \A i \in 1..Len(output) :
            ( /\ output[i].dependency_type = "Require"
              /\ output[i].mod_id \in ModIds
              /\ IsSome(output[i].version) )
            => \A r \in ReadReleases(output[i].mod_id, Unwrap(output[i].version)) :
                 \A k \in 1..Len(r[2].dependencies) :
                    LET d == r[2].dependencies[k] IN
                    (d.dependency_type = "Require" /\ ~is_mod_game_content(d.mod_id))
                    => (InstalledSatisfies(d) \/ OutputMeets(d))

\* C7 (as claimed, its first clause): within one run the registry is queried at
\* most once per package id.
C7_AtMostOncePerId == \A id \in Ids : lookups[id] <= 1

\* C7 (amended): the registry is queried only while a Require spec on a
\* non-reserved id is processed that the satisfaction check reports as not
\* satisfied, and only for that spec's id; the same id may be queried again
\* later in the run.
C7_LookupOnlyUnsatisfied ==
    [][ \A id \in Ids :
          lookups'[id] # lookups[id] =>
              /\ pc = "run"
              /\ batch # <<>>
              /\ batch[1].mod_id = id
              /\ batch[1].dependency_type = "Require"
              /\ ~is_mod_game_content(id)
              /\ ~InstalledSatisfies(batch[1])
              /\ ~EntrySatisfies(dependencies, batch[1]) ]_vars

\* an id was fetched for the second time, after a spec for it had been
\* satisfied by its entry
C7_Witness ==
    /\ last.how = "fetched"
    /\ lookups[last.dependency.mod_id] = 2
    /\ \E d \in seen : /\ d.mod_id = last.dependency.mod_id
                        /\ d.dependency_type = "Require"
                        /\ ~IsSome(d.version)

\* C8 (as claimed): a second run on the same registry and snapshot that takes
\* the specs of a batch in any order, or from one worklist, ends as the first
\* one did and with the same resolved output.
C8_OrderIndependence ==
    (run = 2 /\ pc \in {"done", "panic", "error"}) =>
        /\ (pc = "error") <=> (first.pc = "error")
        /\ pc # "error" => Range(output) = first.output

\* C9: a second run of resolution and planning on the same registry responses
\* and the same snapshot ends as the first one did: with the same error, or
\* with a plan whose install, update and conflict lists are the same sets.
C9_Determinism ==
    (run = 2 /\ pc \in {"done", "panic", "error"}) =>
        /\ pc = first.pc
        /\ err = first.err
        /\ pc = "done" =>
              /\ Range(changes.install) = first.install
              /\ Range(changes.update) = first.update
              /\ Range(changes.conflicts) = first.conflicts

\* both runs gave a plan with an install and an update, from an output of
\* more than one entry
C9_Witness ==
    /\ run = 2
    /\ pc = "done"
    /\ Len(output) >= 2
    /\ changes.install # <<>>
    /\ changes.update # <<>>

\* both runs failed
C9_WitnessError ==
    /\ run = 2
    /\ pc = "error"
    /\ err.kind = "CantFoundSuitableRelease"

\* the case of C10: nothing installed, the release 1.0.0 of X declares
\* "Y >= 1.0.0" and nothing else, the only release of Y is 1.0.0 and declares
\* nothing
EndToEndInstall ==
    /\ installed = [id \in Ids |-> None]
    /\ \E r \in ReadReleases("X", Version(1, 0, 0)) :
         r[2].dependencies = <<Dependency("Y", Some(Version(1, 0, 0)), "Require")>>
    /\ registry["Y"] = ModInfo(<<ModRelease(Version(1, 0, 0), <<>>, TRUE)>>)

\* C10: in that case the run ends with a plan; its install list holds X 1.0.0
\* and Y 1.0.0, each once, and its update and conflict lists are empty.
C10_EndToEndInstall ==
    (EndToEndInstall /\ pc \notin {"run", "resolved"}) =>
        /\ pc = "done"
        /\ Range(changes.install) = {InstallChange("X", Version(1, 0, 0)),
                                     InstallChange("Y", Version(1, 0, 0))}
        /\ Len(changes.install) = 2
        /\ changes.update = <<>>
        /\ changes.conflicts = <<>>

\* the plan of that case has been computed
C10_Witness == EndToEndInstall /\ pc = "done" /\ lookups["Y"] = 1

\* a processed Require spec demands more than the installed version of its
\* package, and the registry has a release of the package at the demanded version
DemandsUpdate(d) ==
    /\ d.dependency_type = "Require"
    /\ d.mod_id \in ModIds
    /\ IsSome(d.version)
    /\ IsSome(installed[d.mod_id])
    /\ VersionGt(Unwrap(d.version), Unwrap(installed[d.mod_id]))
    /\ \E r \in Releases(d.mod_id) : r[2].version = Unwrap(d.version)

\* C11 (as claimed): once the plan is computed, a package for which such a spec
\* was processed has exactly one update action, from the installed version to
\* the demanded one, and no install action.
C11_EndToEndUpdate ==
    pc = "done" =>
        \A d \in seen :
            DemandsUpdate(d) =>
                /\ Count(changes.update,
                         UpdateChange(d.mod_id, Unwrap(installed[d.mod_id]),
                                      Unwrap(d.version))) = 1
                /\ Cardinality({i \in 1..Len(changes.update) :
                                   changes.update[i].id = d.mod_id}) = 1
                /\ d.mod_id \notin PlanIds(changes.install)

\* the step processes a Require spec on a non-reserved id that check_satisfied
\* reports as not satisfied, and the registry answers with a list of releases
SelectsRelease ==
    /\ pc = "run"
    /\ batch # <<>>
    /\ batch' = Tail(batch)
    /\ batch[1].dependency_type = "Require"
    /\ ~is_mod_game_content(batch[1].mod_id)
    /\ ~InstalledSatisfies(batch[1])
    /\ ~EntrySatisfies(dependencies, batch[1])
    /\ registry'[batch[1].mod_id].state = "ok"

\* the step went on with the release at index i of rs: its requirement list is
\* enqueued and a new entry takes its version
Selected(rs, i) ==
    /\ pc' # "error"
    /\ need_process' = need_process \o rs[i].dependencies
    /\ batch[1].mod_id \notin DOMAIN dependencies =>
           dependencies'[batch[1].mod_id].version = Some(rs[i].version)

\* the step failed with the no-suitable-release error
NoSuitableRelease ==
    /\ pc' = "error"
    /\ err' = CantFoundSuitableRelease(batch[1].mod_id)
    /\ UNCHANGED <<need_process, dependencies>>

\* C12: for an unsatisfied Require spec on a non-reserved id, a spec with a
\* version selects the release whose version equals it and fails with the
\* no-suitable-release error when the list has none (higher releases or not);
\* a spec without a version selects the last release of the list, which is the
\* highest, and fails with that error when the list is empty.
C12_ReleaseSelection ==
    [][ SelectsRelease =>
          LET rs == registry'[batch[1].mod_id].releases
              hit == {i \in 1..Len(rs) : Some(rs[i].version) = batch[1].version}
          IN IF IsSome(batch[1].version)
             THEN IF hit = {} THEN NoSuitableRelease
                  ELSE \E i \in hit : Selected(rs, i)
             ELSE IF rs = <<>> THEN NoSuitableRelease
                  ELSE /\ Selected(rs, Len(rs))
                       /\ \A j \in 1..Len(rs) :
                            VersionGe(rs[Len(rs)].version, rs[j].version) ]_vars

\* a spec with a version failed with the no-suitable-release error although
\* the list holds a higher release
C12_Witness ==
    /\ pc = "error"
    /\ err = CantFoundSuitableRelease(last.dependency.mod_id)
    /\ last.dependency.version = Some(Version(1, 0, 0))
    /\ \E r \in Releases(last.dependency.mod_id) : r[2].version = Version(2, 0, 0)

\* a spec without a version selected the last of two releases
C12_WitnessLast ==
    /\ last.how = "fetched"
    /\ ~IsSome(last.dependency.version)
    /\ Len(registry[last.dependency.mod_id].releases) = 2
    /\ dependencies[last.dependency.mod_id].version = Some(Version(2, 0, 0))
    /\ lookups[last.dependency.mod_id] = 1

\* the step asks the registry for the package of batch[1] and the lookup fails
LookupFails ==
    /\ pc = "run"
    /\ batch # <<>>
    /\ batch' = Tail(batch)
    /\ lookups'[batch[1].mod_id] # lookups[batch[1].mod_id]
    /\ registry'[batch[1].mod_id].state = "err"

\* C13: a registry lookup failure ends the call at that step with the
\* mod-not-found error for that id; every error is raised by the spec being
\* processed and leaves the entries and the worklist as they were; after an
\* error no spec is processed, no lookup is made and nothing changes; no
\* resolved set and no plan exist in a run that failed.
C13_ErrorAborts ==
    /\ [][ LookupFails =>
             (pc' = "error" /\ err' = ModNotFound(batch[1].mod_id)) ]_vars
    /\ [][ (pc = "run" /\ pc' = "error") =>
             /\ batch # <<>>
             /\ err' \in {ModNotFound(batch[1].mod_id),
                           CantFoundSuitableRelease(batch[1].mod_id)}
             /\ UNCHANGED <<need_process, dependencies, output, changes>> ]_vars
    /\ [][ pc = "error" =>
             UNCHANGED <<pc, err, batch, need_process, dependencies, lookups,
                         seen, registry, output, changes>> ]_vars
    /\ [](pc = "error" => (output = <<>> /\ changes = NoChanges /\ err # NoError))

\* the lookup for a spec failed while another spec of the batch was waiting
C13_Witness ==
    /\ pc = "error"
    /\ err = ModNotFound(last.dependency.mod_id)
    /\ last.how = "error"
    /\ batch # <<>>

\* the entries of the resolved output that the planner owes an action of each
\* kind: Require, non-reserved id, and not installed (install) or installed
\* below the resolved version (update)
OwesInstall ==
    {i \in 1..Len(output) :
        /\ output[i].dependency_type = "Require"
        /\ ~is_mod_game_content(output[i].mod_id)
        /\ ~IsSome(installed[output[i].mod_id])}

OwesUpdate ==
    {i \in 1..Len(output) :
        /\ output[i].dependency_type = "Require"
        /\ ~is_mod_game_content(output[i].mod_id)
        /\ IsSome(installed[output[i].mod_id])
        /\ IF IsSome(output[i].version)
           THEN VersionGt(Unwrap(output[i].version), Unwrap(installed[output[i].mod_id]))
           ELSE FALSE}

\* the plan has one action for each entry that is owed one, with the entry's id
\* and versions, and no other install or update action
Classified ==
    /\ Len(changes.install) = Cardinality(OwesInstall)
    /\ Len(changes.update) = Cardinality(OwesUpdate)
    /\ \A i \in OwesInstall :
         /\ IsSome(output[i].version)
         /\ Count(changes.install,
                  InstallChange(output[i].mod_id, Unwrap(output[i].version))) = 1
    /\ \A i \in OwesUpdate :
         Count(changes.update,
               UpdateChange(output[i].mod_id, Unwrap(installed[output[i].mod_id]),
                            Unwrap(output[i].version))) = 1

\* C14 (as claimed): for every resolved set the planner is given, the plan is
\* computed and holds exactly one install action for each Require entry on a
\* non-reserved id that is not installed, exactly one update action for each
\* one installed below its resolved version, and no other install or update
\* action.
C14_PlannerClassification ==
    pc \in {"done", "panic"} => (pc = "done" /\ Classified)

\* the classification on the resolved sets for which the planner returns
C14_ClassifiedWhenReturned == pc = "done" => Classified

\* C15: processing a Require spec on a reserved game-content id makes no
\* registry lookup and enqueues nothing; no such id is ever looked up, and none
\* appears in the install or update list of the plan.
C15_GameContent ==
    /\ [][ ( /\ pc = "run"
             /\ batch # <<>>
             /\ batch' = Tail(batch)
             /\ batch[1].dependency_type = "Require"
             /\ is_mod_game_content(batch[1].mod_id) )
           => UNCHANGED <<lookups, registry, need_process>> ]_vars
    /\ [](\A id \in Ids :
            is_mod_game_content(id) =>
                /\ lookups[id] = 0
                /\ registry[id] = NotFetched
                /\ id \notin PlanIds(changes.install) \cup PlanIds(changes.update))

\* a Require spec on base was merged, its entry is in the resolved output and
\* the plan is computed
C15_Witness ==
    /\ pc = "done"
    /\ \E d \in seen : d.mod_id = "base" /\ d.dependency_type = "Require"
    /\ "base" \in OutputIds
    /\ changes.install # <<>>

\* C16: a download or a removal happens only while the installer runs after
\* the answer "y"; the installer starts only from a computed plan with that
\* answer; a run whose resolution failed, whose planner panicked or whose user
\* answered "n" has made no download and no removal.
C16_InstallAfterPlanning ==
    /\ [][ (downloaded' # downloaded \/ removed' # removed)
             => (pc = "installing" /\ answer = "y") ]_vars
    /\ [][ (pc # "installing" /\ pc' = "installing")
             => (pc = "done" /\ answer' = "y") ]_vars
    /\ []( (pc \in {"run", "resolved", "done", "error", "panic", "overflow",
                     "declined"} \/ answer = "n")
            => (downloaded = <<>> /\ removed = <<>>) )

\* the installer ran to the end and made a download and a removal
C16_Witness ==
    /\ pc = "installed"
    /\ downloaded # <<>>
    /\ removed # <<>>

\* the user answered "n" to a plan that had actions
C16_WitnessDeclined ==
    /\ pc = "declined"
    /\ changes.install # <<>>
    /\ changes.update # <<>>

\* a is before b in the lexicographic order on (major, minor, patch)
LexLess(a, b) ==
    \/ a[1] < b[1]
    \/ a[1] = b[1] /\ a[2] < b[2]
    \/ a[1] = b[1] /\ a[2] = b[2] /\ a[3] < b[3]

\* C17: the comparison of versions is the lexicographic order on (major,
\* minor, patch): total (one of Less, Equal, Greater, and Greater one way iff
\* Less the other way), antisymmetric, transitive, Equal iff the three
\* components are equal, and (2,0,0) is Greater than (1,9,9).
C17_VersionOrder ==
    result # <<>> =>
        LET a == input[1]
            b == input[2]
        IN /\ result.ab \in {"Less", "Equal", "Greater"}
           /\ (result.ab = "Less") <=> LexLess(a, b)
           /\ (result.ab = "Greater") <=> LexLess(b, a)
           /\ (result.ab = "Greater") <=> (result.ba = "Less")
           /\ (result.ab = "Equal") <=> (a[1] = b[1] /\ a[2] = b[2] /\ a[3] = b[3])
           /\ (result.ab # "Greater" /\ result.ba # "Greater") => a = b
           /\ (result.ab # "Greater" /\ result.bc # "Greater") => result.ac # "Greater"
           /\ (a = Version(2, 0, 0) /\ b = Version(1, 9, 9)) => result.ab = "Greater"

\* (2,0,0) was compared with (1,9,9), and (1,9,9) with a version below it
C17_Witness ==
    /\ result # <<>>
    /\ input[1] = Version(2, 0, 0)
    /\ input[2] = Version(1, 9, 9)
    /\ result.ab = "Greater"
    /\ result.bc = "Greater"

\* the kind the first character of a string stands for
KindOf(s) ==
    IF StartsWith(s, "!") THEN "Conflict"
    ELSE IF StartsWith(s, "?") THEN "Optional"
    ELSE "Require"

\* C18 (as claimed, its first clause): a string that parses has the kind its
\* first character stands for: Conflict for "!", Optional for "?", Require for
\* any other.
C18_KindByFirstCharacter ==
    (result # <<>> /\ IsSome(result.plain)) =>
        Unwrap(result.plain).dependency_type = KindOf(Text(input))

\* a version text of one to three numbers, and the version it denotes
Denotes(text) ==
    IF text = <<"1">> THEN Some(Version(1, 0, 0))
    ELSE IF text = <<"1", "0">> THEN Some(Version(10, 0, 0))
    ELSE IF text = <<"1", ".", "2">> THEN Some(Version(1, 2, 0))
    ELSE IF text = <<"1", ".", "2", ".", "3">> THEN Some(Version(1, 2, 3))
    ELSE None

\* the string is a marker or none, an id of letters and inner blanks, and
\* either nothing more or one ">=" and a version text, with blanks, parentheses
\* and "~" around them
WellFormed ==
    /\ input.id \in {<<"a">>, <<"a", "b">>, <<"a", " ", "b">>}
    /\ input.operator # <<">">>
    /\ input.operator # <<>> => IsSome(Denotes(input.version))

\* C18 (amended): the kind is the one the first character stands for once
\* every "(", ")" and "~" of the string is dropped; a "~" appended and
\* parentheses put around the string change nothing of the result; a
\* well-formed string parses to the id before ">=" (trimmed, without the
\* marker) and to the version the trimmed text after it denotes, missing minor
\* and patch being 0, or to no version without ">=".
C18_Parsing ==
    result # <<>> =>
        /\ IsSome(result.plain) =>
              Unwrap(result.plain).dependency_type
                  = KindOf(Strip(Text(input), {"(", ")", "~"}))
        /\ result.tilde = result.plain
        /\ result.wrapped = result.plain
        /\ WellFormed =>
              /\ IsSome(result.plain)
              /\ Unwrap(result.plain).mod_id = input.id
              /\ Unwrap(result.plain).version = Denotes(input.version)

\* "(?) a >= 1.2 ~" was parsed: Optional, a, (1,2,0)
C18_Witness ==
    /\ result # <<>>
    /\ Text(input) = <<"(", "?", ")", "a", " ", ">", "=", " ", "1", ".", "2", "~">>
    /\ result.plain = Some(Dependency(<<"a">>, Some(Version(1, 2, 0)), "Optional"))

\* the entry for id was created by remove_usage: it is a Require entry for a
\* non-reserved id that was never looked up, and add_dependency creates such
\* an entry only after a lookup (process_dependency, lines 46-63)
CreatedByCascade(id) ==
    /\ id \in DOMAIN dependencies
    /\ dependencies[id].dependency_type = "Require"
    /\ ~is_mod_game_content(id)
    /\ lookups[id] = 0

\* C19 (as claimed): after a successful resolution no entry that was created
\* by a cascade decrement is in the resolved output.
C19_CascadeEntriesDropped ==
    Succeeded =>
        \A id \in ModIds : CreatedByCascade(id) => id \notin OutputIds

\* C20 (as claimed): every Require entry for a non-reserved id in the resolved
\* output carries a version, and the planner's unwrap never fails.
C20_UnwrapNeverFails ==
    /\ pc # "panic"
    /\ \A i \in 1..Len(output) :
         (output[i].dependency_type = "Require" /\ ~is_mod_game_content(output[i].mod_id))
         => IsSome(output[i].version)

\* the step is a call of process_dependency that reaches add_dependency for id
MergesInto(id) ==
    /\ pc = "run"
    /\ batch # <<>>
    /\ batch' = Tail(batch)
    /\ batch[1].mod_id = id
    /\ last'.how \in {"fetched", "merged"}

\* C21: no step removes an entry; every step leaves the version of an entry as
\* it is or replaces it with a strictly greater one, and it replaces it only
\* in a merge for that entry's id (never in a satisfaction check, never in a
\* usage decrement).
C21_VersionNeverDecreases ==
    [][ \A id \in DOMAIN dependencies :
          /\ id \in DOMAIN dependencies'
          /\ \/ dependencies'[id].version = dependencies[id].version
             \/ /\ IsSome(dependencies[id].version)
                /\ IsSome(dependencies'[id].version)
                /\ VersionGt(Unwrap(dependencies'[id].version),
                             Unwrap(dependencies[id].version))
                /\ MergesInto(id) ]_vars

\* a merge has just raised the version of an entry above the first one chosen
C21_Witness ==
    /\ last.how = "fetched"
    /\ last.dependency.mod_id \in DOMAIN dependencies
    /\ IsSome(chosen[last.dependency.mod_id])
    /\ dependencies[last.dependency.mod_id].version = last.dependency.version
    /\ IsSome(last.dependency.version)
    /\ VersionGt(Unwrap(last.dependency.version), Unwrap(chosen[last.dependency.mod_id]))

\* the step is a call of process_dependency on a spec that check_satisfied
\* has turned down
ProcessesUnsatisfied(dependency) ==
    /\ pc = "run"
    /\ batch # <<>>
    /\ batch' = Tail(batch)
    /\ batch[1] = dependency
    /\ ~CheckSatisfied(dependencies, dependency)

\* C22: processing an Optional or Conflict spec that is not satisfied asks the
\* registry nothing and enqueues nothing; all it does is merge an entry for
\* the id of the spec, which holds the version of the spec (if any) and its kind.
C22_NonRequireOnlyMerges ==
    [][ \A dependency \in Pool :
          (dependency.dependency_type # "Require" /\ ProcessesUnsatisfied(dependency))
          => /\ UNCHANGED <<registry, budget, lookups, need_process, pc, err>>
             /\ dependency.mod_id \in DOMAIN dependencies'
             /\ dependencies'[dependency.mod_id].version = dependency.version
             /\ dependencies'[dependency.mod_id].dependency_type = dependency.dependency_type
             /\ \A id \in DOMAIN dependencies' \ {dependency.mod_id} :
                  id \in DOMAIN dependencies /\ dependencies'[id] = dependencies[id] ]_vars

\* an unsatisfied Conflict spec that names a version has just been merged
C22_Witness ==
    /\ last.how = "merged"
    /\ last.dependency.dependency_type = "Conflict"
    /\ IsSome(last.dependency.version)
    /\ dependencies[last.dependency.mod_id] =
           ExtendedDependency(last.dependency.version, "Conflict", 1)

\* the usages_count of id, 0 for an id without an entry
CountOf(deps, id) == IF id \in DOMAIN deps THEN deps[id].usages_count ELSE 0

\* the step is a call of process_dependency on a spec that check_satisfied accepts
ProcessesSatisfied(dependency) ==
    /\ pc = "run"
    /\ batch # <<>>
    /\ batch' = Tail(batch)
    /\ batch[1] = dependency
    /\ CheckSatisfied(dependencies, dependency)

\* C23: when a Require spec is satisfied by an existing entry (the snapshot
\* does not settle it, and the spec has no minimum or the entry's version meets
\* it), the usages_count of that entry grows by exactly one, its version and
\* kind, every other entry and the worklist stay as they are; when the spec is
\* satisfied by the installed snapshot, or is a non-Require spec satisfied by
\* an existing entry, no entry changes at all, and neither does the worklist.
\* (Counts are followed up to MaxUsage.)
C23_SatisfactionFrame ==
    [][ \A dependency \in Pool :
          (ProcessesSatisfied(dependency)
           /\ CountOf(dependencies, dependency.mod_id) < MaxUsage)
          => /\ need_process' = need_process
             /\ IF /\ ~InstalledSatisfies(dependency)
                   /\ dependency.dependency_type = "Require"
                THEN /\ dependency.mod_id \in DOMAIN dependencies
                     /\ dependencies' =
                          [dependencies EXCEPT ![dependency.mod_id].usages_count = @ + 1]
                ELSE dependencies' = dependencies ]_vars

\* a Require spec has just been satisfied by an entry, which now counts it
C23_Witness ==
    /\ last.how = "entry"
    /\ last.dependency.dependency_type = "Require"
    /\ IsSome(last.dependency.version)
    /\ dependencies[last.dependency.mod_id].usages_count >= 2

\* the version add_dependency is handed on this step: the version of the
\* release chosen after a lookup, the version of the spec otherwise
MergedVersion ==
    IF last'.how = "fetched"
    THEN LET releases == registry'[batch[1].mod_id].releases
         IN Some(releases[SelectRelease(releases, batch[1].version)].version)
    ELSE batch[1].version

\* is the version handed to add_dependency strictly greater than the stored one
MergedIsGreater ==
    /\ batch[1].mod_id \in DOMAIN dependencies
    /\ IsSome(dependencies[batch[1].mod_id].version)
    /\ IsSome(MergedVersion)
    /\ VersionGt(Unwrap(MergedVersion), Unwrap(dependencies[batch[1].mod_id].version))

\* the specs declared by the release of the response at the stored version,
\* when the merged version is strictly greater and there is such a release
DeclaredByPrevious ==
    IF MergedIsGreater /\ last'.how = "fetched"
    THEN LET releases == registry'[batch[1].mod_id].releases
             previous == {i \in 1..Len(releases) :
                            releases[i].version = Unwrap(dependencies[batch[1].mod_id].version)}
         IN IF previous = {} THEN <<>>
            ELSE releases[CHOOSE i \in previous : TRUE].dependencies
    ELSE <<>>

\* the number of specs of the list that name id
DeclaredOn(list, id) == Cardinality({i \in 1..Len(list) : list[i].mod_id = id})

\* C24: the merge rule.  Merging into an absent id inserts an entry with
\* usages_count = 1 and changes nothing else.  Merging into an existing entry
\* adds exactly one to its usages_count; its version is replaced only when the
\* merged version is strictly greater than the stored one, and then, if the
\* response holds a release at the previous stored version, the count of the id
\* of each spec that release declares goes down by one per declared spec (an id
\* without an entry counting from 0); when the merged version is not strictly
\* greater no other entry's count changes.  No merge changes a kind or the
\* version of another entry.  (Counts are followed up to MaxUsage.)
C24_MergeRule ==
    [][ (/\ pc = "run"
         /\ batch # <<>>
         /\ batch' = Tail(batch)
         /\ last'.how \in {"fetched", "merged"}
         /\ CountOf(dependencies, batch[1].mod_id) < MaxUsage)
        => LET id == batch[1].mod_id IN
           IF id \notin DOMAIN dependencies
           THEN dependencies' =
                  Insert(dependencies, id,
                         ExtendedDependency(MergedVersion, batch[1].dependency_type, 1))
           ELSE /\ DOMAIN dependencies' =
                     DOMAIN dependencies
                     \cup {DeclaredByPrevious[i].mod_id : i \in 1..Len(DeclaredByPrevious)}
                /\ \A j \in DOMAIN dependencies' :
                     dependencies'[j].usages_count =
                         CountOf(dependencies, j) + (IF j = id THEN 1 ELSE 0)
                         - DeclaredOn(DeclaredByPrevious, j)
                /\ dependencies'[id].version =
                     IF MergedIsGreater THEN MergedVersion ELSE dependencies[id].version
                /\ \A j \in DOMAIN dependencies :
                     /\ dependencies'[j].dependency_type = dependencies[j].dependency_type
                     /\ j # id => dependencies'[j].version = dependencies[j].version
                /\ ~MergedIsGreater =>
                     \A j \in DOMAIN dependencies' \ {id} :
                         j \in DOMAIN dependencies /\ dependencies'[j] = dependencies[j] ]_vars

\* a merge has just replaced the version of an entry, and the release at the
\* previous version, which declares specs, is in the response: an id those
\* specs name has lost usages
C24_Witness ==
    /\ last.how = "fetched"
    /\ IsSome(chosen[last.dependency.mod_id])
    /\ last.dependency.mod_id \in DOMAIN dependencies
    /\ IsSome(dependencies[last.dependency.mod_id].version)
    /\ dependencies[last.dependency.mod_id].usages_count >= 2
    /\ VersionGt(Unwrap(dependencies[last.dependency.mod_id].version),
                 Unwrap(chosen[last.dependency.mod_id]))
    /\ \E r \in Releases(last.dependency.mod_id) :
         /\ r[2].version = Unwrap(chosen[last.dependency.mod_id])
         /\ \E b \in Ids \ {last.dependency.mod_id} :
              /\ SpecsOn(r[2], b) # {}
              /\ b \in DOMAIN dependencies
              /\ dependencies[b].usages_count <= 0

\* C26: the kind of an entry is the one it was created with: no step (merge,
\* satisfaction check or decrement) removes an entry or changes its kind, even
\* when the spec processed names the same id with another kind.
C26_KindFixedAtCreation ==
    [][ \A id \in DOMAIN dependencies :
          /\ id \in DOMAIN dependencies'
          /\ dependencies'[id].dependency_type = dependencies[id].dependency_type ]_vars

\* a Require spec has just been merged, after a lookup, into an entry that an
\* Optional or Conflict spec created: the entry has kept its kind
C26_Witness ==
    /\ last.how = "fetched"
    /\ last.dependency.dependency_type = "Require"
    /\ last.dependency.mod_id \in DOMAIN dependencies
    /\ dependencies[last.dependency.mod_id].dependency_type # "Require"
    /\ dependencies[last.dependency.mod_id].usages_count >= 2

\* the release fits the instance, in the words of C25
FitsInstance(instance, release) ==
    /\ release.info_json.factorio_version = instance.version
    /\ \A d \in Range(release.info_json.dependencies) :
          (d.dependency_type = "Require" /\ is_mod_game_content(d.mod_id))
          => /\ d.mod_id \in DOMAIN instance.game_content_versions
             /\ \A v \in Versions :
                  d.version = Some(v)
                  => VersionCmp(v, instance.game_content_versions[d.mod_id]) # "Greater"

\* C25: the list get_mod hands over holds exactly the fetched releases whose
\* factorio_version equals the instance version and in which every Require
\* spec on a reserved id names an id of game_content_versions, with a required
\* version (if any) not greater than the bundled one: each such release as
\* often as it was fetched, no other release; and the list ascends by version.
C25_PreFiltering ==
    result # <<>> =>
        /\ \A r \in Range(input.releases) \cup Range(result.releases) :
             Count(result.releases, r) =
                 IF FitsInstance(input.instance, r) THEN Count(input.releases, r) ELSE 0
        /\ \A i, j \in 1..Len(result.releases) :
             i < j => VersionCmp(result.releases[i].version,
                                 result.releases[j].version) # "Greater"

\* three releases were fetched, the greater version first; one is dropped for
\* a Require spec on a reserved id that the instance does not bundle, the two
\* others are handed over in the other order
C25_Witness ==
    /\ result # <<>>
    /\ Len(input.releases) = 3
    /\ Len(result.releases) = 2
    /\ \E i, j \in 1..3 :
         /\ i < j
         /\ VersionGt(input.releases[i].version, input.releases[j].version)
         /\ result.releases = <<input.releases[j], input.releases[i]>>
    /\ \E i \in 1..3 :
         /\ input.releases[i].info_json.factorio_version = input.instance.version
         /\ \E d \in Range(input.releases[i].info_json.dependencies) :
              /\ d.dependency_type = "Require"
              /\ d.mod_id \notin DOMAIN input.instance.game_content_versions
              /\ is_mod_game_content(d.mod_id)

\* C27: after any instances commands, run on a configuration whose default
\* instance is unset or names a saved instance, the default instance of the
\* saved configuration is unset or names an instance of its instances map.
C27_DefaultNamesSavedInstance ==
    LET cfg == Load(config) IN
    IF IsSome(cfg.default_instance)
    THEN Unwrap(cfg.default_instance) \in DOMAIN cfg.instances
    ELSE TRUE

\* the default instance has just been removed, while another instance stays
\* saved: the saved configuration has no default instance any more
C27_Witness ==
    /\ input # <<>>
    /\ input.command = "remove"
    /\ result.default_instance = Some(input.name)
    /\ IsSome(config)
    /\ input.name \notin DOMAIN Unwrap(config).instances
    /\ DOMAIN Unwrap(config).instances # {}
    /\ Unwrap(config).default_instance = None

=============================================================================
